---- MODULE Spec2Model ----
(***************************************************************************)
(* Model of the BIP-39 mnemonic codec (libs/common/bitcoin/bip39.py) and   *)
(* of the emulated USB_HID endpoint (lib_unixport/pyb.py).                 *)
(*                                                                         *)
(* Strings are sequences of one-character strings, byte strings are        *)
(* sequences of integers 0..255.  Every library function is one action:    *)
(* Init draws the arguments of one call, the action applies the function   *)
(* and stores what the caller observes (return value or exception, and    *)
(* the caller's buffer).                                                   *)
(***************************************************************************)
EXTENDS Integers, Sequences, FiniteSets, TLC

VARIABLES pc, op, mnemonic, ignore_checksum, password, b, b0, mutable,
          word_part, nmax, ret, kdf_calls, hid_sent, hid_written, hid_ret

vars == <<pc, op, mnemonic, ignore_checksum, password, b, b0, mutable,
          word_part, nmax, ret, kdf_calls, hid_sent, hid_written, hid_ret>>

codec_vars == <<pc, op, mnemonic, ignore_checksum, password, b, b0, mutable,
                word_part, nmax, ret, kdf_calls>>

hid_vars == <<hid_sent, hid_written, hid_ret>>

---------------------------------------------------------------------------
(* Bounds of the model.                                                    *)

\* entropies of 0, 4, ..., 4*MaxGroups bytes; phrases of up to 3*MaxGroups(+1) words
MaxGroups == 11
\* byte patterns 0..MaxSeed fill the sampled entropies
MaxSeed == 2
\* find_candidates is called with nmax in 0..MaxNmax
MaxNmax == 3
\* number of USB_HID.send calls in one run
MaxSends == 3

---------------------------------------------------------------------------
(* Python integer and sequence primitives.                                 *)

RECURSIVE Pow2(_)
Pow2(n) == IF n <= 0 THEN 1 ELSE 2 * Pow2(n - 1)

\* x << n and x >> n on non-negative integers
Shl(x, n) == x * Pow2(n)
Shr(x, n) == x \div Pow2(n)

\* x & y and x | y on non-negative integers
RECURSIVE BitAnd(_, _)
BitAnd(x, y) ==
    IF x = 0 \/ y = 0 THEN 0
    ELSE (x % 2) * (y % 2) + 2 * BitAnd(x \div 2, y \div 2)

RECURSIVE BitOr(_, _)
BitOr(x, y) ==
    IF x = 0 THEN y
    ELSE IF y = 0 THEN x
    ELSE (IF x % 2 = 1 \/ y % 2 = 1 THEN 1 ELSE 0) + 2 * BitOr(x \div 2, y \div 2)

Min(x, y) == IF x <= y THEN x ELSE y
Max(x, y) == IF x >= y THEN x ELSE y

\* s[:n] for n >= 0
Prefix(s, n) == SubSeq(s, 1, Min(n, Len(s)))

\* s[:-n] and s[-n:] for n >= 0 (Python reads -0 as 0)
SliceToNeg(s, n) == IF n = 0 THEN <<>> ELSE SubSeq(s, 1, Len(s) - n)
SliceFromNeg(s, n) == IF n = 0 THEN s ELSE SubSeq(s, Max(1, Len(s) - n + 1), Len(s))

\* s with its last element replaced by v
SetLast(s, v) == [s EXCEPT ![Len(s)] = v]

---------------------------------------------------------------------------
(* The wordlist: 2048 unique words in sorted order.  The words themselves  *)
(* are synthetic: three or four letters of an eight-letter alphabet, so    *)
(* that some words are proper prefixes of others.                          *)

WordBits == 11
WordlistSize == 2048

Letters == <<"a", "b", "c", "d", "e", "f", "g", "h">>

WordAt(i) ==
    LET l1 == Letters[(i \div 512) + 1]
        l2 == Letters[((i \div 64) % 8) + 1]
        l3 == Letters[((i \div 8) % 8) + 1]
        l4 == Letters[(i % 8) + 1]
    IN  IF i % 8 = 0 THEN <<l1, l2, l3>> ELSE <<l1, l2, l3, l4>>

WORDLIST == [i \in 1..WordlistSize |-> WordAt(i - 1)]

\* The only position that can hold word: the inverse of WordAt (0 when the
\* word has a length or a letter no word of the list has).  A lookup reads
\* that one position instead of scanning the 2048 entries.
Slot(word) ==
    LET v(k) == IF k > Len(word) THEN 0
                ELSE IF \E n \in 1..8 : Letters[n] = word[k]
                     THEN (CHOOSE n \in 1..8 : Letters[n] = word[k]) - 1
                     ELSE 0
    IN  ((512 * v(1) + 64 * v(2) + 8 * v(3) + v(4)) % WordlistSize) + 1

\* word in WORDLIST
InWordlist(word) == WORDLIST[Slot(word)] = word

\* WORDLIST.index(word), 0-based, for a word of the list
WordlistIndex(word) == Slot(word) - 1

---------------------------------------------------------------------------
(* hashlib.sha256(data).digest(): a deterministic function from byte       *)
(* strings to 32 bytes.  The digest here is a stand-in mixing function,    *)
(* not the SHA-256 compression function.                                   *)

DigestSize == 32

\* a tree-shaped fold of data[lo..hi]
RECURSIVE Absorb(_, _, _)
Absorb(data, lo, hi) ==
    IF lo > hi THEN 7
    ELSE IF lo = hi THEN data[lo] + 1
    ELSE LET mid == (lo + hi) \div 2
         IN  (Absorb(data, lo, mid) * 33 + Absorb(data, mid + 1, hi) * 17
              + (hi - lo)) % 65521

sha256(data) ==
    LET h == Absorb(data, 1, Len(data))
    IN  [j \in 1..DigestSize |-> (((h + 1) * (2 * j + 1) * 197) \div 16) % 256]

---------------------------------------------------------------------------
(* Results of a call: the exception raised, or the returned value.         *)

NoExc == "none"
InvalidPhrase == "Invalid recovery phrase"
UnknownWord == "Word is not in the dictionary"
ChecksumFailed == "Checksum verification failed"
InvalidEntropy == "Byte array should be multiple of 4 long"
ByteRange == "byte must be in range(0, 256)"

Returned(v) == [exc |-> NoExc, word |-> <<>>, val |-> v]
Raised(e, w) == [exc |-> e, word |-> w, val |-> <<>>]

---------------------------------------------------------------------------
(* str.strip(), str.split() and str.join().                                *)

Whitespace == {" ", "\t", "\n"}

\* the positions of s that hold no whitespace
Inked(s) == {i \in 1..Len(s) : s[i] \notin Whitespace}

Strip(s) ==
    IF Inked(s) = {} THEN <<>>
    ELSE SubSeq(s, CHOOSE i \in Inked(s) : \A j \in Inked(s) : i <= j,
                   CHOOSE i \in Inked(s) : \A j \in Inked(s) : i >= j)

\* the maximal runs of non-whitespace characters, in order
Split(s) ==
    LET starts == {i \in Inked(s) : i = 1 \/ s[i - 1] \in Whitespace}
        ends == {i \in Inked(s) : i = Len(s) \/ s[i + 1] \in Whitespace}
        nth(S, j) == CHOOSE i \in S : Cardinality({x \in S : x < i}) = j - 1
    IN  [j \in 1..Cardinality(starts) |-> SubSeq(s, nth(starts, j), nth(ends, j))]

RECURSIVE Join(_, _)
Join(sep, ws) ==
    IF ws = <<>> THEN <<>>
    ELSE IF Len(ws) = 1 THEN ws[1]
    ELSE ws[1] \o sep \o Join(sep, Tail(ws))

---------------------------------------------------------------------------
(* mnemonic_to_bytes                                                       *)

\* bytearray.append(v) and binary_seed[-1] = v accept only 0..255
IsByte(v) == v \in 0..255

\* the while loop over one word's index (remaining bits of it still to store)
RECURSIVE PackIndex(_, _, _, _)
PackIndex(binary_seed, offset, index, remaining) ==
    IF remaining <= 0
    THEN [exc |-> NoExc, binary_seed |-> binary_seed, offset |-> offset]
    ELSE
      LET bits_needed == 8 - offset
          last == binary_seed[Len(binary_seed)]
          stored == IF remaining = bits_needed THEN
                        IF bits_needed = 8 THEN index ELSE BitOr(last, index)
                    ELSE IF remaining > bits_needed THEN
                        IF bits_needed = 8
                        THEN Shr(index, remaining - 8)
                        ELSE BitOr(last, Shr(index, remaining - bits_needed))
                    ELSE Shl(index, 8 - remaining)
          appends == remaining < bits_needed \/ bits_needed = 8
          seed2 == IF appends THEN Append(binary_seed, stored)
                   ELSE SetLast(binary_seed, stored)
      IN  IF ~IsByte(stored)
          THEN [exc |-> ByteRange, binary_seed |-> binary_seed, offset |-> offset]
          ELSE IF remaining = bits_needed THEN
              PackIndex(seed2, 0, index, 0)
          ELSE IF remaining > bits_needed THEN
              PackIndex(seed2, 0,
                        BitAnd(index, Shl(1, remaining - bits_needed) - 1),
                        remaining - bits_needed)
          ELSE
              PackIndex(seed2, remaining, index, 0)

\* an unknown word is skipped while a later word is unknown too
RECURSIVE PackWordsLastUnknown(_, _, _, _)
PackWordsLastUnknown(words, i, binary_seed, offset) ==
    IF i > Len(words) THEN Returned(binary_seed)
    ELSE IF ~InWordlist(words[i])
         THEN IF \E j \in (i + 1)..Len(words) : ~InWordlist(words[j])
              THEN PackWordsLastUnknown(words, i + 1, binary_seed, offset)
              ELSE Raised(UnknownWord, words[i])
    ELSE LET st == PackIndex(binary_seed, offset, WordlistIndex(words[i]), WordBits)
         IN  IF st.exc # NoExc THEN Raised(st.exc, <<>>)
             ELSE PackWordsLastUnknown(words, i + 1, st.binary_seed, st.offset)

\* the for loop over the words: the packed bytes, or the first unknown word
RECURSIVE PackWords(_, _, _, _)
PackWords(words, i, binary_seed, offset) ==
    IF i > Len(words) THEN Returned(binary_seed)
    ELSE IF ~InWordlist(words[i]) THEN Raised(UnknownWord, words[i])
    ELSE LET st == PackIndex(binary_seed, offset, WordlistIndex(words[i]), WordBits)
         IN  IF st.exc # NoExc THEN Raised(st.exc, <<>>)
             ELSE PackWords(words, i + 1, st.binary_seed, st.offset)

\* a transcription that subtracts 1 after the shift: 256 - ((1 << (n + 1)) - 1)
ChecksumMaskShiftFirst(bits_to_ignore) == 256 - (Shl(1, bits_to_ignore + 1) - 1)

\* 256 - (1 << (bits_to_ignore + 1) - 1): Python's + and - bind tighter than <<
ChecksumMask(bits_to_ignore) == 256 - Shl(1, (bits_to_ignore + 1) - 1)

\* a checksum that always takes one byte more than its whole bytes
ChecksumLayoutExtraByte(n_words) ==
    LET checksum_length_bits == (n_words * 11) \div 33
        num_remainder == checksum_length_bits % 8
    IN  [checksum_length |-> (checksum_length_bits \div 8) + 1,
         bits_to_ignore |-> IF num_remainder # 0 THEN 8 - num_remainder ELSE 0]

\* lines 57-64: the bytes the checksum takes and the bits of its last byte
\* that carry nothing
ChecksumLayout(n_words) ==
    LET checksum_length_bits == (n_words * 11) \div 33
        num_remainder == checksum_length_bits % 8
    IN  IF num_remainder # 0
        THEN [checksum_length |-> (checksum_length_bits \div 8) + 1,
              bits_to_ignore |-> 8 - num_remainder]
        ELSE [checksum_length |-> checksum_length_bits \div 8,
              bits_to_ignore |-> 0]

\* lines 65-73: split off the checksum, recompute it and compare
VerifyChecksum(n_words, raw, ignore) ==
    LET checksum_length == ChecksumLayout(n_words).checksum_length
        bits_to_ignore == ChecksumLayout(n_words).bits_to_ignore
        data == SliceToNeg(raw, checksum_length)
        checksum == SliceFromNeg(raw, checksum_length)
        digest == Prefix(sha256(data), checksum_length)
        computed_checksum ==
            SetLast(digest,
                    BitAnd(digest[Len(digest)], ChecksumMask(bits_to_ignore)))
    IN  IF ~ignore /\ checksum # computed_checksum
        THEN Raised(ChecksumFailed, <<>>)
        ELSE Returned(data)

\* the word count is checked only after the words have been looked up
mnemonic_to_bytes_LateCount(mn, ignore) ==
    LET words == Split(Strip(mn))
        packed == PackWords(words, 1, <<>>, 0)
    IN  IF packed.exc # NoExc THEN packed
        ELSE IF Len(words) % 3 # 0 \/ Len(words) < 12
        THEN Raised(InvalidPhrase, <<>>)
        ELSE VerifyChecksum(Len(words), packed.val, ignore)

mnemonic_to_bytes(mn, ignore) ==
    LET words == Split(Strip(mn))
    IN  IF Len(words) % 3 # 0 \/ Len(words) < 12
        THEN Raised(InvalidPhrase, <<>>)
        ELSE LET packed == PackWords(words, 1, <<>>, 0)
             IN  IF packed.exc # NoExc THEN packed
                 ELSE VerifyChecksum(Len(words), packed.val, ignore)

---------------------------------------------------------------------------
(* mnemonic_from_bytes                                                     *)

RECURSIVE ExtractFrom(_, _, _, _)
ExtractFrom(bytes, pos, stop, value) ==
    IF pos >= stop THEN value
    ELSE ExtractFrom(bytes, pos + 1, stop,
                     2 * value
                     + (IF BitAnd(bytes[(pos \div 8) + 1], Shl(1, 7 - (pos % 8))) # 0
                        THEN 1 ELSE 0))

\* the bits of a byte read from the least significant one
RECURSIVE ExtractFromLsb(_, _, _, _)
ExtractFromLsb(bytes, pos, stop, value) ==
    IF pos >= stop THEN value
    ELSE ExtractFromLsb(bytes, pos + 1, stop,
                        2 * value
                        + (IF BitAnd(bytes[(pos \div 8) + 1], Shl(1, pos % 8)) # 0
                           THEN 1 ELSE 0))

extract_index_lsb(bits, bytes, n) == ExtractFromLsb(bytes, n * bits, (n + 1) * bits, 0)

extract_index(bits, bytes, n) == ExtractFrom(bytes, n * bits, (n + 1) * bits, 0)

\* the words are counted without the checksum bits
mnemonic_from_bytes_NoChecksumWord(bytes, is_bytearray) ==
    IF Len(bytes) % 4 # 0
    THEN [res |-> Raised(InvalidEntropy, <<>>), buf |-> bytes]
    ELSE
      LET total_bits == Len(bytes) * 8
          total_mnemonics == total_bits \div 11
          extended == bytes \o sha256(bytes)
          words == [i \in 1..total_mnemonics |->
                       WORDLIST[extract_index(WordBits, extended, i - 1) + 1]]
      IN  [res |-> Returned(Join(<<" ">>, words)),
           buf |-> IF is_bytearray THEN extended ELSE bytes]

\* the value returned (or the exception) and the caller's buffer afterwards:
\* b += checksum extends a bytearray in place and rebinds the local name
\* for immutable bytes
mnemonic_from_bytes(bytes, is_bytearray) ==
    IF Len(bytes) % 4 # 0
    THEN [res |-> Raised(InvalidEntropy, <<>>), buf |-> bytes]
    ELSE
      LET total_bits == Len(bytes) * 8
          checksum_bits == total_bits \div 32
          total_mnemonics == (total_bits + checksum_bits) \div 11
          checksum == sha256(bytes)
          extended == bytes \o checksum
          words == [i \in 1..total_mnemonics |->
                       WORDLIST[extract_index(WordBits, extended, i - 1) + 1]]
      IN  [res |-> Returned(Join(<<" ">>, words)),
           buf |-> IF is_bytearray THEN extended ELSE bytes]

---------------------------------------------------------------------------
(* str.encode("utf-8") over the characters the model uses.                 *)

Ord ==
    [c \in {"a", "b", "c", "d", "e", "f", "g", "h", "i", "m", "n", "o", "z",
            "R", "T", " ", "\t", "\n", "é"} |->
        CASE c = "a" -> 97  [] c = "b" -> 98  [] c = "c" -> 99  [] c = "d" -> 100
          [] c = "e" -> 101 [] c = "f" -> 102 [] c = "g" -> 103 [] c = "h" -> 104
          [] c = "i" -> 105 [] c = "m" -> 109 [] c = "n" -> 110 [] c = "o" -> 111
          [] c = "z" -> 122 [] c = "R" -> 82  [] c = "T" -> 84  [] c = " " -> 32
          [] c = "\t" -> 9  [] c = "\n" -> 10 [] c = "é" -> 233]

Utf8Char(c) ==
    LET cp == Ord[c]
    IN  IF cp < 128 THEN <<cp>>
        ELSE <<192 + (cp \div 64), 128 + (cp % 64)>>

RECURSIVE Utf8Range(_, _, _)
Utf8Range(s, lo, hi) ==
    IF lo > hi THEN <<>>
    ELSE IF lo = hi THEN Utf8Char(s[lo])
    ELSE LET mid == (lo + hi) \div 2
         IN  Utf8Range(s, lo, mid) \o Utf8Range(s, mid + 1, hi)

Utf8Encode(s) == Utf8Range(s, 1, Len(s))

---------------------------------------------------------------------------
(* mnemonic_is_valid, mnemonic_to_seed                                     *)

PBKDF2_ROUNDS == 2048

\* the bare except: turns every exception into False
mnemonic_is_valid(mn) == mnemonic_to_bytes(mn, FALSE).exc = NoExc

\* hashlib.pbkdf2_hmac is not interpreted: its value is the application itself
pbkdf2_hmac(hash_name, pw, salt, iterations, dklen) ==
    [fn |-> "pbkdf2_hmac", hash_name |-> hash_name, password |-> pw,
     salt |-> salt, iterations |-> iterations, dklen |-> dklen]

\* the seed is derived before the phrase is validated
mnemonic_to_seed_DeriveFirst(mn, pw) ==
    LET seed == pbkdf2_hmac("sha512", Utf8Encode(mn),
                            Utf8Encode(<<"m", "n", "e", "m", "o", "n", "i", "c">> \o pw),
                            PBKDF2_ROUNDS, 64)
        checked == mnemonic_to_bytes(mn, FALSE)
    IN  IF checked.exc # NoExc
        THEN [res |-> checked, calls |-> <<seed>>]
        ELSE [res |-> Returned(seed), calls |-> <<seed>>]

\* the result, and the calls of the key-derivation function it made
mnemonic_to_seed(mn, pw) ==
    LET checked == mnemonic_to_bytes(mn, FALSE)
        seed == pbkdf2_hmac("sha512", Utf8Encode(mn),
                            Utf8Encode(<<"m", "n", "e", "m", "o", "n", "i", "c">> \o pw),
                            PBKDF2_ROUNDS, 64)
    IN  IF checked.exc # NoExc
        THEN [res |-> checked, calls |-> <<>>]
        ELSE [res |-> Returned(seed), calls |-> <<seed>>]

---------------------------------------------------------------------------
(* find_candidates                                                         *)

\* w.startswith(prefix)
StartsWith(w, prefix) ==
    Len(prefix) <= Len(w) /\ SubSeq(w, 1, Len(prefix)) = prefix

\* The for loop from wordlist position t (1-based) on.  An iteration whose
\* word does not match leaves candidates as it is, so once the break test
\* has failed it fails until the next matching word: the loop is resumed
\* there (or past the end of the list when no word matches any more).
RECURSIVE FindFrom(_, _, _, _)
FindFrom(prefix, limit, t, candidates) ==
    IF t > WordlistSize THEN candidates
    ELSE LET w == WORDLIST[t]
             c2 == IF StartsWith(w, prefix) THEN Append(candidates, w) ELSE candidates
             later == {u \in (t + 1)..WordlistSize : StartsWith(WORDLIST[u], prefix)}
             resume == IF later = {} THEN WordlistSize + 1
                       ELSE CHOOSE u \in later : \A v \in later : u <= v
         IN  IF Len(c2) >= limit THEN c2
             ELSE FindFrom(prefix, limit, resume, c2)

find_candidates(prefix, limit) == FindFrom(prefix, limit, 1, <<>>)

---------------------------------------------------------------------------
(* The sampled arguments.                                                  *)

\* entropy of len bytes: all zero, all 0xFF, or a mixed pattern
Pattern(len, s) ==
    [i \in 1..len |->
        IF s = 0 THEN 0
        ELSE IF s = 1 THEN 255
        ELSE ((s * 53 + 1) * (i * 29 + 37)) % 256]

EntropyLens == {4 * k : k \in 0..MaxGroups} \cup {1, 15, 18}

Entropies == {Pattern(len, s) : len \in EntropyLens, s \in 0..MaxSeed}

\* word lists that carry a correct checksum, of 0, 3, 6, ... words
CheckedWords ==
    {Split(mnemonic_from_bytes(Pattern(4 * k, s), FALSE).res.val) :
        k \in 0..MaxGroups, s \in 0..MaxSeed}

\* twelve words chosen by index alone, the last one swept over the sixteen
\* values of its four checksum bits
SweptWords ==
    {[i \in 1..12 |->
        IF i < 12 THEN WORDLIST[(((s * 977 + 5) * (i * 211 + 97)) % WordlistSize) + 1]
        ELSE WORDLIST[((s * 311 + 7) % 128) * 16 + c + 1]] :
        s \in 0..MaxSeed, c \in 0..15}

Unknown1 == <<"a", "a">>
Unknown2 == <<"z", "o", "o">>

NextWord(w) == WORDLIST[((WordlistIndex(w) + 1) % WordlistSize) + 1]

ReplaceAt(ws, p, w) == [ws EXCEPT ![p] = w]

\* word lists derived from ws: a word changed, unknown words, a wrong count
Damaged(ws) ==
    IF ws = <<>> THEN {<<Unknown1>>}
    ELSE {ReplaceAt(ws, 1, NextWord(ws[1])),
          ReplaceAt(ws, Len(ws), NextWord(ws[Len(ws)])),
          ReplaceAt(ws, Len(ws), Unknown2),
          ReplaceAt(ReplaceAt(ws, 2, Unknown1), Len(ws), Unknown2),
          ReplaceAt(ReplaceAt(ws, 2, Unknown2), 3, Unknown1),
          SubSeq(ws, 1, Len(ws) - 1),
          Append(ws, ws[1]),
          Append(ws, Unknown1),
          Append(ReplaceAt(ws, 1, Unknown2), ws[1])}

\* the ways a phrase is written: what precedes, separates and follows the words
Canonical == [lead |-> <<>>, sep |-> <<" ">>, trail |-> <<>>]

Layouts ==
    {Canonical,
     [lead |-> <<" ">>, sep |-> <<" ">>, trail |-> <<>>],
     [lead |-> <<>>, sep |-> <<" ", " ">>, trail |-> <<>>],
     [lead |-> <<>>, sep |-> <<"\t">>, trail |-> <<"\n">>]}

Render(ws, lay) == lay.lead \o Join(lay.sep, ws) \o lay.trail

Phrases ==
    {Render(ws, lay) : ws \in CheckedWords, lay \in Layouts}
    \cup {Render(ws, Canonical) : ws \in UNION {Damaged(cw) : cw \in CheckedWords}}
    \cup {Render(ws, Canonical) : ws \in SweptWords}

\* phrases handed to mnemonic_is_valid and mnemonic_to_seed
SeedPhrases ==
    {Render(ws, lay) : ws \in {cw \in CheckedWords : Len(cw) <= 15}, lay \in Layouts}
    \cup {Render(ws, Canonical) :
            ws \in UNION {Damaged(cw) : cw \in {x \in CheckedWords : Len(x) = 12}}}

Passwords == {<<>>, <<"T", "R">>, <<"é">>}

Prefixes ==
    {<<>>, <<"a">>, <<"b">>, <<"a", "a", "a">>, <<"a", "a", "a", "b">>,
     <<"a", "a", "a", "a">>, <<"d", "h", "h">>, <<"c", "d">>, <<"z">>}

Limits == (0..MaxNmax) \cup {5, 10}

NoArgs ==
    [op |-> "", mnemonic |-> <<>>, ignore_checksum |-> FALSE, password |-> <<>>,
     b |-> <<>>, mutable |-> FALSE, word_part |-> <<>>, nmax |-> 5]

Calls ==
    {[NoArgs EXCEPT !.op = "mnemonic_to_bytes", !.mnemonic = m, !.ignore_checksum = ig] :
        m \in Phrases, ig \in BOOLEAN}
    \cup {[NoArgs EXCEPT !.op = "mnemonic_is_valid", !.mnemonic = m] : m \in SeedPhrases}
    \cup {[NoArgs EXCEPT !.op = "mnemonic_to_seed", !.mnemonic = m, !.password = pw] :
            m \in SeedPhrases, pw \in Passwords}
    \cup {[NoArgs EXCEPT !.op = "mnemonic_from_bytes", !.b = e, !.mutable = mu] :
            e \in Entropies, mu \in BOOLEAN}
    \cup {[NoArgs EXCEPT !.op = "find_candidates", !.word_part = pf, !.nmax = n] :
            pf \in Prefixes, n \in Limits}

---------------------------------------------------------------------------
(* The codec: one call of one function.                                    *)

NoRet == [exc |-> "pending", word |-> <<>>, val |-> <<>>]

Init ==
    /\ \E c \in Calls :
          /\ op = c.op
          /\ mnemonic = c.mnemonic
          /\ ignore_checksum = c.ignore_checksum
          /\ password = c.password
          /\ b = c.b
          /\ b0 = c.b
          /\ mutable = c.mutable
          /\ word_part = c.word_part
          /\ nmax = c.nmax
    /\ pc = "call"
    /\ ret = NoRet
    /\ kdf_calls = <<>>
    /\ hid_sent = <<>>
    /\ hid_written = <<>>
    /\ hid_ret = 0

MnemonicToBytes ==
    /\ pc = "call" /\ op = "mnemonic_to_bytes"
    /\ ret' = mnemonic_to_bytes(mnemonic, ignore_checksum)
    /\ pc' = "done"
    /\ UNCHANGED <<op, mnemonic, ignore_checksum, password, b, b0, mutable,
                   word_part, nmax, kdf_calls, hid_vars>>

MnemonicIsValid ==
    /\ pc = "call" /\ op = "mnemonic_is_valid"
    /\ ret' = Returned(mnemonic_is_valid(mnemonic))
    /\ pc' = "done"
    /\ UNCHANGED <<op, mnemonic, ignore_checksum, password, b, b0, mutable,
                   word_part, nmax, kdf_calls, hid_vars>>

MnemonicToSeed ==
    /\ pc = "call" /\ op = "mnemonic_to_seed"
    /\ LET r == mnemonic_to_seed(mnemonic, password)
       IN  /\ ret' = r.res
           /\ kdf_calls' = kdf_calls \o r.calls
    /\ pc' = "done"
    /\ UNCHANGED <<op, mnemonic, ignore_checksum, password, b, b0, mutable,
                   word_part, nmax, hid_vars>>

MnemonicFromBytes ==
    /\ pc = "call" /\ op = "mnemonic_from_bytes"
    /\ LET r == mnemonic_from_bytes(b, mutable)
       IN  /\ ret' = r.res
           /\ b' = r.buf
    /\ pc' = "done"
    /\ UNCHANGED <<op, mnemonic, ignore_checksum, password, b0, mutable,
                   word_part, nmax, kdf_calls, hid_vars>>

FindCandidates ==
    /\ pc = "call" /\ op = "find_candidates"
    /\ ret' = Returned(find_candidates(word_part, nmax))
    /\ pc' = "done"
    /\ UNCHANGED <<op, mnemonic, ignore_checksum, password, b, b0, mutable,
                   word_part, nmax, kdf_calls, hid_vars>>

Next ==
    \/ MnemonicToBytes
    \/ MnemonicIsValid
    \/ MnemonicToSeed
    \/ MnemonicFromBytes
    \/ FindCandidates

Spec == Init /\ [][Next]_vars

---------------------------------------------------------------------------
(* USB_HID: the emulated endpoint.  hid_written is the log of the byte     *)
(* strings handed to the host's write, hid_sent the data of the send calls *)
(* made so far, hid_ret the value the last send returned.                  *)

PacketSize == 64

HidData(len, tag) == [i \in 1..len |-> (tag * 16 + i) % 256]

HidDatas ==
    {HidData(len, 1) : len \in {0, 1, PacketSize - 1, PacketSize, PacketSize + 1,
                                2 * PacketSize + 2}}
    \cup {HidData(PacketSize, 2)}

\* a packet of exactly PacketSize bytes is dropped too
USB_HID_send_DropExact(written, data) ==
    IF Len(data) <= PacketSize
    THEN [ret |-> Len(data), written |-> written]
    ELSE [ret |-> Len(data), written |-> Append(written, Prefix(data, PacketSize))]

\* the value returned and the write log afterwards
USB_HID_send(written, data) ==
    IF Len(data) < PacketSize
    THEN [ret |-> Len(data), written |-> written]
    ELSE [ret |-> Len(data), written |-> Append(written, Prefix(data, PacketSize))]

InitHID ==
    /\ pc = "idle"
    /\ op = NoArgs.op
    /\ mnemonic = NoArgs.mnemonic
    /\ ignore_checksum = NoArgs.ignore_checksum
    /\ password = NoArgs.password
    /\ b = NoArgs.b
    /\ b0 = NoArgs.b
    /\ mutable = NoArgs.mutable
    /\ word_part = NoArgs.word_part
    /\ nmax = NoArgs.nmax
    /\ ret = NoRet
    /\ kdf_calls = <<>>
    /\ hid_sent = <<>>
    /\ hid_written = <<>>
    /\ hid_ret = 0

Send ==
    /\ Len(hid_sent) < MaxSends
    /\ \E data \in HidDatas :
          LET r == USB_HID_send(hid_written, data)
          IN  /\ hid_written' = r.written
              /\ hid_ret' = r.ret
              /\ hid_sent' = Append(hid_sent, data)
    /\ UNCHANGED codec_vars

NextHID == Send

SpecHID == InitHID /\ [][NextHID]_vars

---------------------------------------------------------------------------
(* Reference notions the properties are stated with.                       *)

Done(o) == pc = "done" /\ op = o

\* the words of the phrase of the call, and whether decode takes their count
PhraseWords == Split(mnemonic)
AcceptedCount(n) == n % 3 = 0 /\ n >= 12

\* membership and position in the wordlist, by scanning it
Listed(w) == \E i \in 1..WordlistSize : WORDLIST[i] = w
RefIndex(w) == (CHOOSE i \in 1..WordlistSize : WORDLIST[i] = w) - 1

UnknownPositions(ws) == {j \in 1..Len(ws) : ~Listed(ws[j])}
FirstUnknown(ws) ==
    ws[CHOOSE j \in UnknownPositions(ws) : \A k \in UnknownPositions(ws) : j <= k]

\* bit p (0-based, most significant first) of the stream of 11-bit indices idx
StreamBit(idx, p) == (idx[(p \div 11) + 1] \div Pow2(10 - (p % 11))) % 2

\* byte k (0-based) of that stream
StreamByte(idx, k) ==
    128 * StreamBit(idx, 8 * k) + 64 * StreamBit(idx, 8 * k + 1)
    + 32 * StreamBit(idx, 8 * k + 2) + 16 * StreamBit(idx, 8 * k + 3)
    + 8 * StreamBit(idx, 8 * k + 4) + 4 * StreamBit(idx, 8 * k + 5)
    + 2 * StreamBit(idx, 8 * k + 6) + StreamBit(idx, 8 * k + 7)

\* bit p (0-based, most significant first) of a byte string
ByteStringBit(d, p) == (d[(p \div 8) + 1] \div Pow2(7 - (p % 8))) % 2

\* the checksum bits that follow the entropy differ from the top bits of the digest
EmbeddedChecksumDiffers(ws) ==
    LET n == Len(ws)
        idx == SubSeq([j \in 1..n |-> RefIndex(ws[j])], 1, n)
        checksum_bits == (n * 11) \div 33
        entropy_bits == 11 * n - checksum_bits
        data == SubSeq([k \in 1..(entropy_bits \div 8) |-> StreamByte(idx, k - 1)],
                       1, entropy_bits \div 8)
        digest == sha256(data)
    IN  \E p \in 0..(checksum_bits - 1) :
            StreamBit(idx, entropy_bits + p) # ByteStringBit(digest, p)

\* mask keeps the top r bits of a byte (all eight when r = 0) and no other bit
KeepsTopBits(mask, r) ==
    \A bit \in 0..7 :
        ((mask \div Pow2(bit)) % 2 = 1) <=> (r = 0 \/ bit >= 8 - r)

\* r holds the first min(limit, number of matching words) words of the
\* wordlist that begin with prefix, in wordlist order
FirstMatches(r, prefix, limit) ==
    LET matching == {i \in 1..WordlistSize :
                        /\ Len(prefix) <= Len(WORDLIST[i])
                        /\ \A k \in 1..Len(prefix) : WORDLIST[i][k] = prefix[k]}
        count == Min(limit, Cardinality(matching))
    IN  /\ Len(r) = count
        /\ \A j \in 1..Len(r) :
              /\ Listed(r[j])
              /\ RefIndex(r[j]) + 1 \in matching
              /\ Cardinality({i \in matching : i < RefIndex(r[j]) + 1}) = j - 1

\* the concatenation of a sequence of byte strings
RECURSIVE Flatten(_)
Flatten(chunks) ==
    IF chunks = <<>> THEN <<>> ELSE Head(chunks) \o Flatten(Tail(chunks))

\* the 64-byte prefixes of the data that were at least 64 bytes long
RECURSIVE ForwardedBytes(_)
ForwardedBytes(sent) ==
    IF sent = <<>> THEN <<>>
    ELSE (IF Len(Head(sent)) >= 64 THEN SubSeq(Head(sent), 1, 64) ELSE <<>>)
         \o ForwardedBytes(Tail(sent))

---------------------------------------------------------------------------
(* The properties.                                                         *)

\* C1: for an entropy of 16, 20, 24, 28 or 32 bytes, encoding succeeds and
\* decoding the phrase with checksum verification returns the entropy that
\* was passed in.
C1_DecodeOfEncode ==
    (Done("mnemonic_from_bytes") /\ Len(b0) \in {16, 20, 24, 28, 32}) =>
        /\ ret.exc = NoExc
        /\ mnemonic_to_bytes(ret.val, FALSE) = Returned(b0)

C1_Witness ==
    /\ Done("mnemonic_from_bytes")
    /\ Len(b0) = 32
    /\ b0 = Pattern(32, 2)
    /\ ret.exc = NoExc
    /\ Len(Split(ret.val)) = 24
    /\ mnemonic_to_bytes(ret.val, FALSE).val = b0

\* C2 as stated: every phrase that decode accepts with checksum verification
\* is returned unchanged by encoding the decoded entropy, whatever whitespace
\* the phrase holds.
C2_EncodeOfDecodeIsPhrase ==
    (Done("mnemonic_to_bytes") /\ ~ignore_checksum /\ ret.exc = NoExc) =>
        mnemonic_from_bytes(ret.val, FALSE).res = Returned(mnemonic)

\* C2 amended: every phrase that decode accepts with checksum verification
\* is returned by encoding the decoded entropy with its words joined by
\* single spaces; that is the phrase itself exactly when it is written so.
C2_EncodeOfDecodeIsNormalised ==
    (Done("mnemonic_to_bytes") /\ ~ignore_checksum /\ ret.exc = NoExc) =>
        LET again == mnemonic_from_bytes(ret.val, FALSE).res
        IN  /\ again = Returned(Join(<<" ">>, PhraseWords))
            /\ (again.val = mnemonic) <=> (mnemonic = Join(<<" ">>, PhraseWords))

C2_Witness ==
    /\ Done("mnemonic_to_bytes")
    /\ ~ignore_checksum
    /\ ret.exc = NoExc
    /\ Len(PhraseWords) = 15
    /\ mnemonic # Join(<<" ">>, PhraseWords)
    /\ mnemonic_from_bytes(ret.val, FALSE).res.val = Join(<<" ">>, PhraseWords)

\* C3: for a phrase of accepted length whose words are all in the wordlist,
\* decode with checksum verification fails with the checksum error exactly
\* when the checksum bits that follow the entropy in the stream of indices
\* differ from the top bits of the digest of the entropy; and the mask laid
\* on the last computed checksum byte keeps exactly its top
\* (checksum_bits mod 8) bits, all eight when that is 0.
C3_ChecksumFailsIffBitsDiffer ==
    (/\ Done("mnemonic_to_bytes")
     /\ ~ignore_checksum
     /\ AcceptedCount(Len(PhraseWords))
     /\ UnknownPositions(PhraseWords) = {}) =>
        /\ ret.exc \in {NoExc, ChecksumFailed}
        /\ (ret.exc = ChecksumFailed) <=> EmbeddedChecksumDiffers(PhraseWords)
        /\ KeepsTopBits(ChecksumMask(ChecksumLayout(Len(PhraseWords)).bits_to_ignore),
                        ((Len(PhraseWords) * 11) \div 33) % 8)

C3_Witness ==
    /\ Done("mnemonic_to_bytes")
    /\ ~ignore_checksum
    /\ Len(PhraseWords) = 15
    /\ UnknownPositions(PhraseWords) = {}
    /\ ret.exc = ChecksumFailed
    /\ EmbeddedChecksumDiffers(PhraseWords)

\* C4: a phrase whose word count is not a multiple of 3 or is below 12 makes
\* decode fail with the phrase-length error and return nothing, whatever its
\* words and whatever ignore_checksum.
C4_BadCountRejected ==
    (Done("mnemonic_to_bytes") /\ ~AcceptedCount(Len(PhraseWords))) =>
        ret = Raised(InvalidPhrase, <<>>)

C4_Witness ==
    /\ Done("mnemonic_to_bytes")
    /\ ignore_checksum
    /\ Len(PhraseWords) = 13
    /\ UnknownPositions(PhraseWords) # {}
    /\ ret = Raised(InvalidPhrase, <<>>)

\* C5 as stated: a phrase that holds a word absent from the wordlist makes
\* decode fail with the unknown-word error naming the first such word.
C5_UnknownWordNamed ==
    (Done("mnemonic_to_bytes") /\ UnknownPositions(PhraseWords) # {}) =>
        ret = Raised(UnknownWord, FirstUnknown(PhraseWords))

\* C5 amended: a phrase of accepted word count (a multiple of 3, at least
\* 12) that holds a word absent from the wordlist makes decode fail with the
\* unknown-word error naming the first such word; with any other word count
\* decode fails with the phrase-length error instead.
C5_UnknownWordNamedWhenCountAccepted ==
    (Done("mnemonic_to_bytes") /\ UnknownPositions(PhraseWords) # {}) =>
        IF AcceptedCount(Len(PhraseWords))
        THEN ret = Raised(UnknownWord, FirstUnknown(PhraseWords))
        ELSE ret = Raised(InvalidPhrase, <<>>)

C5_Witness ==
    /\ Done("mnemonic_to_bytes")
    /\ AcceptedCount(Len(PhraseWords))
    /\ Cardinality(UnknownPositions(PhraseWords)) = 2
    /\ PhraseWords[2] = Unknown2
    /\ ret = Raised(UnknownWord, Unknown2)

\* C6: encode leaves the caller's buffer as it was: the same bytes and the
\* same length after the call as before it.
C6_BufferUntouched ==
    Done("mnemonic_from_bytes") => b = b0

\* C7: find_candidates returns, in wordlist order, exactly the first
\* min(nmax, number of words beginning with the prefix) such words, so never
\* more than nmax of them, for every nmax >= 0.
C7_FirstMatchesUpToLimit ==
    (Done("find_candidates") /\ nmax >= 0) =>
        /\ FirstMatches(ret.val, word_part, nmax)
        /\ Len(ret.val) <= nmax

\* C8: mnemonic_to_seed first decodes the phrase with checksum verification;
\* when that fails it fails alike and the key-derivation function is never
\* called; when it succeeds the result is the one call of PBKDF2-HMAC-SHA512
\* with password = the UTF-8 bytes of the phrase as given, salt = "mnemonic"
\* followed by the UTF-8 bytes of the passphrase, 2048 iterations, 64 bytes.
C8_SeedAfterValidation ==
    Done("mnemonic_to_seed") =>
        LET checked == mnemonic_to_bytes(mnemonic, FALSE)
            expected ==
                [fn |-> "pbkdf2_hmac", hash_name |-> "sha512",
                 password |-> Utf8Encode(mnemonic),
                 salt |-> <<109, 110, 101, 109, 111, 110, 105, 99>>
                          \o Utf8Encode(password),
                 iterations |-> 2048, dklen |-> 64]
        IN  IF checked.exc # NoExc
            THEN ret = checked /\ kdf_calls = <<>>
            ELSE ret = Returned(expected) /\ kdf_calls = <<expected>>

C8_Witness ==
    /\ Done("mnemonic_to_seed")
    /\ ret.exc = NoExc
    /\ password = <<"é">>
    /\ mnemonic # Join(<<" ">>, PhraseWords)
    /\ Len(kdf_calls) = 1
    /\ kdf_calls[1].password = Utf8Encode(mnemonic)
    /\ kdf_calls[1].password # mnemonic_to_bytes(mnemonic, FALSE).val

\* C9: 11 * word_count = entropy_bits + checksum_bits with
\* checksum_bits = entropy_bits / 32, for the phrase encode returns
\* (entropy_bits = 8 * length of the entropy passed) and for the entropy decode
\* returns (entropy_bits = 8 * length of it, checksum_bits = word_count*11/33).
C9_SizeInvariant ==
    /\ (Done("mnemonic_from_bytes") /\ ret.exc = NoExc) =>
          LET entropy_bits == 8 * Len(b0)
              word_count == Len(Split(ret.val))
          IN  /\ entropy_bits % 32 = 0
              /\ 11 * word_count = entropy_bits + (entropy_bits \div 32)
    /\ (Done("mnemonic_to_bytes") /\ ret.exc = NoExc) =>
          LET entropy_bits == 8 * Len(ret.val)
              word_count == Len(PhraseWords)
              checksum_bits == (word_count * 11) \div 33
          IN  /\ 11 * word_count = entropy_bits + checksum_bits
              /\ entropy_bits = 32 * checksum_bits

C9_Witness ==
    /\ Done("mnemonic_to_bytes")
    /\ ret.exc = NoExc
    /\ Len(PhraseWords) = 24
    /\ Len(ret.val) = 32

\* C10: send forwards exactly the first 64 bytes of data of 64 bytes or more
\* and nothing of shorter data, and returns len(data) either way: the bytes
\* written to the host are the 64-byte prefixes, in call order, of the calls
\* whose data was at least 64 bytes long.
C10_OnePacketPerSend ==
    /\ Flatten(hid_written) = ForwardedBytes(hid_sent)
    /\ \A i \in 1..Len(hid_written) : Len(hid_written[i]) = 64
    /\ Len(hid_written) = Cardinality({i \in 1..Len(hid_sent) : Len(hid_sent[i]) >= 64})
    /\ hid_sent # <<>> => hid_ret = Len(hid_sent[Len(hid_sent)])

C10_Witness ==
    /\ Len(hid_sent) = 3
    /\ Len(hid_sent[1]) = 65
    /\ Len(hid_sent[2]) = 63
    /\ Len(hid_sent[3]) = 64
    /\ Len(hid_written) = 2
    /\ hid_ret = 64

====
